---- MODULE Spec2Model ----
(***************************************************************************)
(* Model of the check step of github-pr-resource (package resource):       *)
(* Check, the AlreadySeen ledger codec (GetVersionStringFromPullRequest,   *)
(* GenerateVersion, ExtractVersionFromVersionString), the fold classifier  *)
(* AboveTheFold and the two sort orders (Pulls, CheckResponse).            *)
(*                                                                         *)
(* Go strings are modelled as sequences of one-character strings, so that  *)
(* strings.Split, strings.Contains, strconv.Itoa and strconv.ParseInt are  *)
(* computed character by character as the code computes them.  A time.Time *)
(* is an integer number of ticks, TicksPerSecond ticks to the second;      *)
(* Time.Unix() is the floor of ticks / TicksPerSecond.                     *)
(***************************************************************************)
EXTENDS Integers, Sequences, FiniteSets, TLC

\* ------------------------------------------------------------------ bounds

\* Pull request numbers are 1..MaxPR.
MaxPR == 2

\* Tip commits are committed at the whole seconds 0..MaxSec.
MaxSec == 2

\* Resolution of a time.Time in the model: ticks per second.
TicksPerSecond == 2

\* Number of checks in one chain of checks.
MaxChecks == 3

\* ----------------------------------------------------------------- strings

Digits == <<"0", "1", "2", "3", "4", "5", "6", "7", "8", "9">>

IsDigit(c) == \E i \in 1..10 : Digits[i] = c

DigitVal(c) == (CHOOSE i \in 1..10 : Digits[i] = c) - 1

RECURSIVE NatToString(_)
\* the decimal digits of n >= 0
NatToString(n) ==
    IF n < 10 THEN <<Digits[n + 1]>>
    ELSE NatToString(n \div 10) \o <<Digits[(n % 10) + 1]>>

\* strconv.Itoa / strconv.FormatInt(_, 10)
Itoa(n) == IF n < 0 THEN <<"-">> \o NatToString(0 - n) ELSE NatToString(n)

RECURSIVE DigitsToNat(_)
\* the value of a non-empty sequence of decimal digits
DigitsToNat(s) ==
    IF Len(s) = 1 THEN DigitVal(s[1])
    ELSE DigitsToNat(SubSeq(s, 1, Len(s) - 1)) * 10 + DigitVal(s[Len(s)])

\* strconv.ParseInt(s, 10, 64): an optional sign, then one or more decimal
\* digits; anything else is an error.  (The range error of int64 needs a
\* field of 19 digits or more; the ledgers of this model hold shorter ones.)
ParseInt(s) ==
    LET signed == Len(s) > 0 /\ s[1] \in {"+", "-"}
        body == IF signed THEN Tail(s) ELSE s
        wellFormed == Len(body) > 0 /\ \A i \in 1..Len(body) : IsDigit(body[i])
        mag == IF wellFormed THEN DigitsToNat(body) ELSE 0
        neg == signed /\ s[1] = "-"
    IN  IF wellFormed
        THEN [ok |-> TRUE, val |-> IF neg THEN 0 - mag ELSE mag]
        ELSE [ok |-> FALSE, val |-> 0]

\* strings.Contains(s, c) for a one-character c
Contains(s, c) == \E i \in 1..Len(s) : s[i] = c

RECURSIVE Split(_, _)
\* strings.Split(s, sep) for a one-character sep: the fields between the
\* separators; a string without sep, the empty string included, is one field.
Split(s, sep) ==
    IF ~Contains(s, sep) THEN <<s>>
    ELSE LET i == CHOOSE k \in 1..Len(s) :
                      s[k] = sep /\ \A j \in 1..(k - 1) : s[j] # sep
         IN  <<SubSeq(s, 1, i - 1)>> \o Split(SubSeq(s, i + 1, Len(s)), sep)

RECURSIVE Join(_, _)
\* strings.Join(fields, sep)
Join(fields, sep) ==
    IF Len(fields) = 0 THEN <<>>
    ELSE IF Len(fields) = 1 THEN fields[1]
    ELSE fields[1] \o <<sep>> \o Join(Tail(fields), sep)

\* ------------------------------------------------------------ ledger codec

\* a Unix() that keeps the fraction of the second
UnixUnrounded(t) == t

\* Time.Unix(): whole seconds since the epoch, rounded down.
Unix(t) == t \div TicksPerSecond

\* time.Unix(sec, 0)
TimeOfUnix(sec) == sec * TicksPerSecond

\* GetVersionStringFromPullRequest: "<Number>:<Tip.CommittedDate.Unix()>"
GetVersionStringFromPullRequest(pull) ==
    Itoa(pull.Number) \o <<":">> \o Itoa(Unix(pull.Tip.CommittedDate))

\* ExtractVersionFromVersionString: splits on ":" and reads pairs[0] and
\* pairs[1]; further fields are ignored.  It panics when there is no pairs[1]
\* (index out of range) and when pairs[1] is no integer (panic(err)).
ExtractVersionFromVersionString(alreadySeenPair) ==
    LET pairs == Split(alreadySeenPair, ":")
        parsed == IF Len(pairs) >= 2 THEN ParseInt(pairs[2])
                  ELSE [ok |-> FALSE, val |-> 0]
    IN  IF Len(pairs) >= 2 /\ parsed.ok
        THEN [panic |-> FALSE, PR |-> pairs[1],
              committedDate |-> TimeOfUnix(parsed.val)]
        ELSE [panic |-> TRUE, PR |-> <<>>, committedDate |-> 0]

\* a GenerateVersion whose pairs slice keeps the latest pair only
GenerateVersionLastOnly(pulls) ==
    IF Len(pulls) = 0 THEN <<>>
    ELSE GetVersionStringFromPullRequest(pulls[Len(pulls)])

\* GenerateVersion: the pairs of the pulls, in their order, joined by ","
GenerateVersion(pulls) ==
    Join([i \in 1..Len(pulls) |-> GetVersionStringFromPullRequest(pulls[i])], ",")

\* ---------------------------------------------------------- fold classifier

\* a comparison that also takes an equal date for a later one
AfterOrEqual(t, u) == t >= u

\* the comparison with its operands exchanged
AfterSwapped(t, u) == u > t

\* a comparison that takes no date for a later one
AfterNever(t, u) == FALSE

\* pullRequest.committedDate.After(thisPairVersion.committedDate)
After(t, u) == t > u

\* an AboveTheFold without its "not found in pairs" case
AboveTheFoldFoundOnly(pullRequestVersion, alreadySeen) ==
    IF ~Contains(alreadySeen, ":") THEN [panic |-> FALSE, above |-> TRUE]
    ELSE
      LET pairs == Split(alreadySeen, ",")
          pullRequest == ExtractVersionFromVersionString(pullRequestVersion)
          decoded == [i \in 1..Len(pairs) |-> ExtractVersionFromVersionString(pairs[i])]
          found == {i \in 1..Len(pairs) : decoded[i].PR = pullRequest.PR}
      IN  IF pullRequest.panic \/ \E i \in 1..Len(pairs) : decoded[i].panic
          THEN [panic |-> TRUE, above |-> FALSE]
          ELSE [panic |-> FALSE,
                above |-> \E i \in found :
                    pullRequest.committedDate > decoded[i].committedDate]

\* an AboveTheFold without its first return: a ledger without ":" is decoded
AboveTheFoldUnguarded(pullRequestVersion, alreadySeen) ==
    LET pairs == Split(alreadySeen, ",")
        pullRequest == ExtractVersionFromVersionString(pullRequestVersion)
        decoded == [i \in 1..Len(pairs) |-> ExtractVersionFromVersionString(pairs[i])]
        found == {i \in 1..Len(pairs) : decoded[i].PR = pullRequest.PR}
        isFoundInPairs == found # {}
        newer == \E i \in found :
                     After(pullRequest.committedDate, decoded[i].committedDate)
    IN  IF pullRequest.panic \/ \E i \in 1..Len(pairs) : decoded[i].panic
        THEN [panic |-> TRUE, above |-> FALSE]
        ELSE [panic |-> FALSE, above |-> newer \/ ~isFoundInPairs]

\* AboveTheFold: [panic, above].  Without any ":" in alreadySeen every pull
\* request is above the fold.  Otherwise every pair of alreadySeen is decoded
\* (a pair that does not decode panics); the pull request is above the fold
\* when it is newer than a pair of its number or when no pair has its number.
AboveTheFold(pullRequestVersion, alreadySeen) ==
    IF ~Contains(alreadySeen, ":") THEN [panic |-> FALSE, above |-> TRUE]
    ELSE
      LET pairs == Split(alreadySeen, ",")
          pullRequest == ExtractVersionFromVersionString(pullRequestVersion)
          decoded == [i \in 1..Len(pairs) |-> ExtractVersionFromVersionString(pairs[i])]
          found == {i \in 1..Len(pairs) : decoded[i].PR = pullRequest.PR}
          isFoundInPairs == found # {}
          newer == \E i \in found :
                       After(pullRequest.committedDate, decoded[i].committedDate)
      IN  IF pullRequest.panic \/ \E i \in 1..Len(pairs) : decoded[i].panic
          THEN [panic |-> TRUE, above |-> FALSE]
          ELSE [panic |-> FALSE, above |-> newer \/ ~isFoundInPairs]

\* ------------------------------------------------------------------ filters

UpperLetters == <<"A", "B", "C", "D", "E", "F", "G", "H", "I", "J", "K", "L", "M",
                  "N", "O", "P", "Q", "R", "S", "T", "U", "V", "W", "X", "Y", "Z">>

LowerLetters == <<"a", "b", "c", "d", "e", "f", "g", "h", "i", "j", "k", "l", "m",
                  "n", "o", "p", "q", "r", "s", "t", "u", "v", "w", "x", "y", "z">>

\* case folding of the (?i) flag, as a table
FoldTable == [c \in {UpperLetters[i] : i \in 1..Len(UpperLetters)} |->
                 LowerLetters[CHOOSE i \in 1..Len(UpperLetters) : UpperLetters[i] = c]]

Fold(c) == IF c \in DOMAIN FoldTable THEN FoldTable[c] ELSE c

\* whether s holds sub, letters compared without case
ContainsFold(s, sub) ==
    \E i \in 1..(Len(s) - Len(sub) + 1) :
        \A j \in 1..Len(sub) : Fold(s[i + j - 1]) = Fold(sub[j])

CiSkip == <<"[", "c", "i", " ", "s", "k", "i", "p", "]">>

SkipCi == <<"[", "s", "k", "i", "p", " ", "c", "i", "]">>

\* a ContainsSkipCI that knows "[ci skip]" only
ContainsSkipCIFirstOnly(s) == ContainsFold(s, CiSkip)

\* ContainsSkipCI: the regexp (?i)\[(ci skip|skip ci)\] matches somewhere in s
ContainsSkipCI(s) == ContainsFold(s, CiSkip) \/ ContainsFold(s, SkipCi)

RECURSIVE Match(_, _)
\* filepath.Match(pattern, name) for patterns of literal characters, "?" and
\* "*" (neither of which matches the separator "/"): [err, match].  A "[" that
\* opens no character class is filepath.ErrBadPattern.
Match(pattern, name) ==
    IF Contains(pattern, "[") THEN [err |-> TRUE, match |-> FALSE]
    ELSE IF Len(pattern) = 0 THEN [err |-> FALSE, match |-> Len(name) = 0]
    ELSE IF pattern[1] = "*"
    THEN [err |-> FALSE,
          match |-> \E k \in 0..Len(name) :
                       /\ ~Contains(SubSeq(name, 1, k), "/")
                       /\ Match(Tail(pattern), SubSeq(name, k + 1, Len(name))).match]
    ELSE [err |-> FALSE,
          match |-> /\ Len(name) > 0
                    /\ IF pattern[1] = "?" THEN name[1] # "/" ELSE name[1] = pattern[1]
                    /\ Match(Tail(pattern), Tail(name)).match]

\* FilterPath: the files that match the pattern, or the error of a match
FilterPath(files, pattern) ==
    IF \E i \in 1..Len(files) : Match(pattern, files[i]).err
    THEN [err |-> TRUE, out |-> <<>>]
    ELSE [err |-> FALSE,
          out |-> SelectSeq(files, LAMBDA f : Match(pattern, f).match)]

\* a FilterIgnorePath that keeps the files that match
FilterIgnorePathKeeping(files, pattern) == FilterPath(files, pattern)

\* FilterIgnorePath: the files that do not match the pattern, or the error
FilterIgnorePath(files, pattern) ==
    IF \E i \in 1..Len(files) : Match(pattern, files[i]).err
    THEN [err |-> TRUE, out |-> <<>>]
    ELSE [err |-> FALSE,
          out |-> SelectSeq(files, LAMBDA f : ~Match(pattern, f).match)]

\* strconv.ParseBool
ParseBool(str) ==
    IF str \in {"1", "t", "T", "TRUE", "true", "True"}
    THEN [ok |-> TRUE, val |-> TRUE]
    ELSE IF str \in {"0", "f", "F", "FALSE", "false", "False"}
    THEN [ok |-> TRUE, val |-> FALSE]
    ELSE [ok |-> FALSE, val |-> FALSE]

RECURSIVE WantedByPaths(_, _)
\* Check, paths loop: [err, wanted], wanted the concatenation of
\* FilterPath(files, pattern) over the patterns; the first failing pattern
\* ends the check.
WantedByPaths(files, patterns) ==
    IF Len(patterns) = 0 THEN [err |-> FALSE, out |-> <<>>]
    ELSE LET w == FilterPath(files, patterns[1])
             rest == WantedByPaths(files, Tail(patterns))
         IN  IF w.err \/ rest.err THEN [err |-> TRUE, out |-> <<>>]
             ELSE [err |-> FALSE, out |-> w.out \o rest.out]

RECURSIVE WantedByIgnorePaths(_, _)
\* Check, ignore_paths loop: [err, wanted], wanted narrowed by
\* FilterIgnorePath pattern after pattern; the first failing pattern ends the
\* check.
WantedByIgnorePaths(wanted, patterns) ==
    IF Len(patterns) = 0 THEN [err |-> FALSE, out |-> wanted]
    ELSE LET w == FilterIgnorePath(wanted, patterns[1])
         IN  IF w.err THEN [err |-> TRUE, out |-> <<>>]
             ELSE WantedByIgnorePaths(w.out, Tail(patterns))

\* -------------------------------------------------------------------- sorts

\* Pulls.Less(i, j): r[j].Number > r[i].Number
PullsLess(a, b) == b.Number > a.Number

\* CheckResponse.Less(i, j): r[j].CommittedDate.After(r[i].CommittedDate)
CheckResponseLess(a, b) == After(b.CommittedDate, a.CommittedDate)

RECURSIVE InsertPull(_, _)
\* one pass of the insertion sort: x moves left past every element it is
\* Less than
InsertPull(sorted, x) ==
    IF Len(sorted) > 0 /\ PullsLess(x, sorted[Len(sorted)])
    THEN InsertPull(SubSeq(sorted, 1, Len(sorted) - 1), x) \o <<sorted[Len(sorted)]>>
    ELSE sorted \o <<x>>

\* a sort.Sort(combinedVersions) that leaves the slice as it is
SortPullsNone(pulls) == pulls

RECURSIVE SortPulls(_)
\* sort.Sort(combinedVersions): for the short slices of this model sort.Sort
\* is an insertion sort, ascending by Number
SortPulls(pulls) ==
    IF Len(pulls) = 0 THEN <<>>
    ELSE InsertPull(SortPulls(SubSeq(pulls, 1, Len(pulls) - 1)), pulls[Len(pulls)])

RECURSIVE InsertVersion(_, _)
InsertVersion(sorted, x) ==
    IF Len(sorted) > 0 /\ CheckResponseLess(x, sorted[Len(sorted)])
    THEN InsertVersion(SubSeq(sorted, 1, Len(sorted) - 1), x) \o <<sorted[Len(sorted)]>>
    ELSE sorted \o <<x>>

\* a response left in the order of the pulls
SortResponseNone(response) == response

RECURSIVE SortResponse(_)
\* sort.Sort(response): an insertion sort, ascending by CommittedDate; equal
\* dates keep their order
SortResponse(response) ==
    IF Len(response) = 0 THEN <<>>
    ELSE InsertVersion(SortResponse(SubSeq(response, 1, Len(response) - 1)),
                       response[Len(response)])

\* -------------------------------------------------------------------- Check

\* NewVersion
NewVersion(p, alreadySeen) ==
    [PR |-> p.ID, Commit |-> p.Tip.ID, CommittedDate |-> p.Tip.CommittedDate,
     AlreadySeen |-> alreadySeen]

\* Check, one turn of the loop over the pulls, for pull request p:
\*   "skip"  p is left out (skip marker, no wanted file, all files ignored)
\*   "error" ListModifiedFiles or a glob match failed: Check returns the error
\*   "panic" the ledger did not decode
\*   "new"   appended to newPullsToReturn
\*   "seen"  appended to alreadySeenPullsToHide
Classify(p, request, manager, disableSkipCI) ==
    LET source == request.Source
        fetch == Len(source.Paths) > 0 \/ Len(source.IgnorePaths) > 0
        listed == manager.files[p.Number]
        files == IF fetch THEN listed.files ELSE <<>>
        byPaths == WantedByPaths(files, source.Paths)
        byIgnore == WantedByIgnorePaths(files, source.IgnorePaths)
        fold == AboveTheFold(GetVersionStringFromPullRequest(p),
                             request.Version.AlreadySeen)
    IN  IF ~disableSkipCI /\ ContainsSkipCI(p.Title) THEN "skip"
        ELSE IF ~disableSkipCI /\ ContainsSkipCI(p.Tip.Message) THEN "skip"
        ELSE IF fetch /\ listed.err THEN "error"
        ELSE IF Len(source.Paths) > 0 /\ byPaths.err THEN "error"
        ELSE IF Len(source.Paths) > 0 /\ Len(byPaths.out) = 0 THEN "skip"
        ELSE IF Len(source.IgnorePaths) > 0 /\ byIgnore.err THEN "error"
        ELSE IF Len(source.IgnorePaths) > 0 /\ Len(byIgnore.out) = 0 THEN "skip"
        ELSE IF fold.panic THEN "panic"
        ELSE IF fold.above THEN "new"
        ELSE "seen"

\* a Respond that never re-emits the previous Version
RespondNoReemit(newPullsToReturn, alreadySeenPullsToHide, request) ==
    LET combinedVersions == SortPulls(newPullsToReturn \o alreadySeenPullsToHide)
        versionsJustSeen == GenerateVersion(combinedVersions)
        built == [i \in 1..Len(newPullsToReturn) |->
                     NewVersion(newPullsToReturn[i], versionsJustSeen)]
        sorted == SortResponse(built)
    IN  IF Len(sorted) # 0 /\ request.Version.AlreadySeen = <<>>
        THEN <<sorted[Len(sorted)]>>
        ELSE sorted

\* a Respond that keeps response[0] when there was no ledger
RespondFirst(newPullsToReturn, alreadySeenPullsToHide, request) ==
    LET combinedVersions == SortPulls(newPullsToReturn \o alreadySeenPullsToHide)
        versionsJustSeen == GenerateVersion(combinedVersions)
        built == [i \in 1..Len(newPullsToReturn) |->
                     NewVersion(newPullsToReturn[i], versionsJustSeen)]
        sorted == SortResponse(built)
        kept == IF Len(sorted) = 0 /\ request.Version.AlreadySeen # <<>>
                THEN <<request.Version>>
                ELSE sorted
    IN  IF Len(kept) # 0 /\ request.Version.AlreadySeen = <<>>
        THEN <<kept[1]>>
        ELSE kept

\* a Respond whose ledger holds the new pull requests only
RespondNewOnly(newPullsToReturn, alreadySeenPullsToHide, request) ==
    LET versionsJustSeen == GenerateVersion(newPullsToReturn)
        built == [i \in 1..Len(newPullsToReturn) |->
                     NewVersion(newPullsToReturn[i], versionsJustSeen)]
        sorted == SortResponse(built)
        kept == IF Len(sorted) = 0 /\ request.Version.AlreadySeen # <<>>
                THEN <<request.Version>>
                ELSE sorted
    IN  IF Len(kept) # 0 /\ request.Version.AlreadySeen = <<>>
        THEN <<kept[Len(kept)]>>
        ELSE kept

\* Check, after the loop: the ledger of all pull requests that passed the
\* filters, the new Versions sorted by date, the previous Version when there
\* is none and a ledger, the latest alone when there was no ledger.
Respond(newPullsToReturn, alreadySeenPullsToHide, request) ==
    LET combinedVersions == SortPulls(newPullsToReturn \o alreadySeenPullsToHide)
        versionsJustSeen == GenerateVersion(combinedVersions)
        built == [i \in 1..Len(newPullsToReturn) |->
                     NewVersion(newPullsToReturn[i], versionsJustSeen)]
        sorted == SortResponse(built)
        kept == IF Len(sorted) = 0 /\ request.Version.AlreadySeen # <<>>
                THEN <<request.Version>>
                ELSE sorted
    IN  IF Len(kept) # 0 /\ request.Version.AlreadySeen = <<>>
        THEN <<kept[Len(kept)]>>
        ELSE kept

RECURSIVE Appended(_, _, _)
\* Check, the appends of the loop: the pulls whose turn of the loop ended in
\* class kind, in the order of the loop
Appended(pulls, class, kind) ==
    IF Len(pulls) = 0 THEN <<>>
    ELSE (IF class[1] = kind THEN <<pulls[1]>> ELSE <<>>)
         \o Appended(Tail(pulls), Tail(class), kind)

\* a loop that goes on after a turn that failed
LoopOn(class, i, whenDone) == [outcome |-> "ok", response |-> whenDone]

RECURSIVE Loop(_, _, _)
\* Check, the loop over the pulls and what follows it: the first turn that
\* fails ends the check; without one the response is built.
Loop(class, i, whenDone) ==
    IF i > Len(class) THEN [outcome |-> "ok", response |-> whenDone]
    ELSE IF class[i] \in {"error", "panic"}
    THEN [outcome |-> class[i], response |-> <<>>]
    ELSE Loop(class, i + 1, whenDone)

\* Check, from the loop on, given the class of every turn
Finish(pulls, class, request) ==
    Loop(class, 1, Respond(Appended(pulls, class, "new"),
                           Appended(pulls, class, "seen"), request))

\* Check(request, manager): [outcome, response].  outcome is "ok" (response,
\* nil), "error" (nil, err) or "panic" (ExtractVersionFromVersionString
\* panicked and nothing is returned).
Check(request, manager) ==
    IF manager.listErr THEN [outcome |-> "error", response |-> <<>>]
    ELSE IF request.Source.DisableCISkip # ""
            /\ ~ParseBool(request.Source.DisableCISkip).ok
    THEN [outcome |-> "error", response |-> <<>>]
    ELSE Finish(manager.pulls,
                [i \in 1..Len(manager.pulls) |->
                    Classify(manager.pulls[i], request, manager,
                             request.Source.DisableCISkip # ""
                             /\ ParseBool(request.Source.DisableCISkip).val)],
                request)

\* Check, one turn of the loop: whether it calls ListModifiedFiles for p
Fetches(p, request, disableSkipCI) ==
    /\ disableSkipCI \/ (~ContainsSkipCI(p.Title) /\ ~ContainsSkipCI(p.Tip.Message))
    /\ Len(request.Source.Paths) > 0 \/ Len(request.Source.IgnorePaths) > 0

RECURSIVE Listed(_, _, _)
\* Check, the ListModifiedFiles calls of the loop, by pull request number:
\* one in each turn that fetches, up to and including the turn that fails
Listed(pulls, class, fetches) ==
    IF Len(pulls) = 0 THEN <<>>
    ELSE (IF fetches[1] THEN <<pulls[1].Number>> ELSE <<>>)
         \o (IF class[1] \in {"error", "panic"} THEN <<>>
             ELSE Listed(Tail(pulls), Tail(class), Tail(fetches)))

\* the ListModifiedFiles calls Check(request, manager) makes
ListModifiedFilesCalls(request, manager) ==
    IF manager.listErr THEN <<>>
    ELSE IF request.Source.DisableCISkip # ""
            /\ ~ParseBool(request.Source.DisableCISkip).ok
    THEN <<>>
    ELSE Listed(manager.pulls,
                [i \in 1..Len(manager.pulls) |->
                    Classify(manager.pulls[i], request, manager,
                             request.Source.DisableCISkip # ""
                             /\ ParseBool(request.Source.DisableCISkip).val)],
                [i \in 1..Len(manager.pulls) |->
                    Fetches(manager.pulls[i], request,
                            request.Source.DisableCISkip # ""
                            /\ ParseBool(request.Source.DisableCISkip).val)])

\* ---------------------------------------------------------------------- Get

\* json.Marshal of a time.Time: a string of the time, to its full resolution
MarshalTime(t) == Itoa(t)

\* json.Marshal(request.Version): the fields in their order, under their
\* json tags
MarshalVersion(v) ==
    <<"pr", v.PR, "commit", v.Commit, "committed", MarshalTime(v.CommittedDate),
      "alreadyseen", v.AlreadySeen>>

\* a metadata with head_sha and base_sha exchanged
MetadataSwapped(pull, baseSHA) ==
    << [name |-> "pr", value |-> Itoa(pull.Number)],
       [name |-> "url", value |-> pull.URL],
       [name |-> "head_sha", value |-> baseSHA],
       [name |-> "base_sha", value |-> pull.Tip.OID],
       [name |-> "message", value |-> pull.Tip.Message],
       [name |-> "author", value |-> pull.Tip.Author.User.Login] >>

\* Get, "Create the metadata": six metadata.Add in this order
Metadata(pull, baseSHA) ==
    << [name |-> "pr", value |-> Itoa(pull.Number)],
       [name |-> "url", value |-> pull.URL],
       [name |-> "head_sha", value |-> pull.Tip.OID],
       [name |-> "base_sha", value |-> baseSHA],
       [name |-> "message", value |-> pull.Tip.Message],
       [name |-> "author", value |-> pull.Tip.Author.User.Login] >>

RECURSIVE MarshalMetadata(_)
\* json.Marshal(metadata): an array of objects of name and value
MarshalMetadata(metadata) ==
    IF Len(metadata) = 0 THEN <<>>
    ELSE << <<"name", metadata[1].name, "value", metadata[1].value>> >>
         \o MarshalMetadata(Tail(metadata))

\* filepath.Join(outputDir, ".git", "resource")
ResourcePath == "out/.git/resource"

\* Get, its calls of the collaborators and of the file system in the order
\* of the code, were none of them to fail.  pull is what GetPullRequest
\* answers and baseSHA what RevParse answers.
GetCalls(request, pull, baseSHA) ==
    << [op |-> "GetPullRequest", args |-> <<request.Version.PR, request.Version.Commit>>],
       [op |-> "Init", args |-> <<>>],
       [op |-> "Pull", args |-> <<pull.Repository.URL>>],
       [op |-> "Fetch", args |-> <<pull.Repository.URL, pull.Number>>],
       [op |-> "RevParse", args |-> <<pull.BaseRefName>>],
       [op |-> "Checkout", args |-> <<baseSHA>>],
       [op |-> "Merge", args |-> <<pull.Tip.OID>>],
       [op |-> "MkdirAll", args |-> <<ResourcePath>>],
       [op |-> "WriteFile",
        args |-> <<"version.json", MarshalVersion(request.Version)>>],
       [op |-> "WriteFile",
        args |-> <<"metadata.json", MarshalMetadata(Metadata(pull, baseSHA))>>] >>

\* a Get that goes on after a call that failed
ExecutedAll(all, failing) == all

\* Get, "if err != nil { return nil, err }" after each call: the calls made
\* when call number failing returns an error (0: none does)
Executed(all, failing) ==
    IF failing = 0 THEN all ELSE SubSeq(all, 1, failing)

\* the files on disk after the calls: name and content of every WriteFile
\* that did not fail
Written(calls, failing) ==
    SelectSeq([i \in 1..Len(calls) |->
                  IF calls[i].op = "WriteFile" /\ i # failing
                  THEN calls[i].args ELSE <<>>],
              LAMBDA w : w # <<>>)

\* the nil *GetResponse
NilResponse == [nil |-> TRUE]

\* Get(request, github, git, outputDir): its calls, the files it wrote, and
\* what it returned
Get(request, pull, baseSHA, failing) ==
    [calls |-> Executed(GetCalls(request, pull, baseSHA), failing),
     written |-> Written(Executed(GetCalls(request, pull, baseSHA), failing), failing),
     response |-> IF failing = 0
                  THEN [nil |-> FALSE, Version |-> request.Version,
                        Metadata |-> Metadata(pull, baseSHA)]
                  ELSE NilResponse,
     err |-> failing # 0]

\* ------------------------------------------------------------- environment

PRs == 1..MaxPR

\* the committed dates of the tips: whole seconds, as GitHub reports them
Times == {TimeOfUnix(sec) : sec \in 0..MaxSec}

PlainText == <<"f", "i", "x">>

SkipText == <<"f", "i", "x", " ", "[", "S", "k", "i", "p", " ", "C", "I", "]">>

\* the titles of the pull requests of this specification carry no skip marker
Titles == {PlainText}

\* PullRequestObject.ID, the global id of pull request n
GlobalID(n) == <<"P", "R">> \o Itoa(n)

\* CommitObject.ID of the tip of pull request n committed at t
CommitID(n, t) == <<"c">> \o Itoa(n) \o <<"@">> \o Itoa(t)

\* a PullRequest as ListOpenPullRequests delivers it
PullRequest(n, t, title) ==
    [ID |-> GlobalID(n), Number |-> n, Title |-> title,
     Tip |-> [ID |-> CommitID(n, t), CommittedDate |-> t, Message |-> PlainText]]

\* the orders in which ListOpenPullRequests can deliver open pull requests:
\* sequences of distinct numbers
Orders ==
    {o \in UNION {[1..k -> PRs] : k \in 0..MaxPR} :
        \A i, j \in 1..Len(o) : i # j => o[i] # o[j]}

\* the zero Version of the first check of a resource
NoVersion == [PR |-> <<>>, Commit |-> <<>>, CommittedDate |-> 0, AlreadySeen |-> <<>>]

\* ledgers no check has written: edited by hand, or of another encoding
EditedLedgers ==
    { <<"g">>,
      <<"1", ":", "x">>,
      <<"1", ":", "1", ":", "0">>,
      <<"1", ":", "0", ",", "2">> }

\* the Versions the first check of a chain can be handed: none, or the
\* Version of a pull request closed since, with an edited ledger
FirstVersions ==
    {NoVersion} \cup
    {[PR |-> GlobalID(0), Commit |-> CommitID(0, 0), CommittedDate |-> 0,
      AlreadySeen |-> l] : l \in EditedLedgers}

\* the source configuration of the chains of this specification: no path
\* filter, disable_ci_skip unset
Sources ==
    {[DisableCISkip |-> "", Paths |-> <<>>, IgnorePaths |-> <<>>]}

NoFiles == [n \in PRs |-> [err |-> FALSE, files |-> <<>>]]

\* ------------------------------------------- environment of the filtered check

\* the one tip date of the pull requests of the filtered checks
FilterTime == TimeOfUnix(1)

\* a title that is no marker: the words without the brackets
NearMissText == <<"s", "k", "i", "p", " ", "c", "i">>

FileA == <<"a">>

FileB == <<"b">>

\* a file in a directory: "d/a"
FileDA == <<"d", "/", "a">>

\* what a pull request looks like: its title, the message of its tip, and
\* what ListModifiedFiles answers for it
Kinds ==
    { [title |-> PlainText, message |-> PlainText,
       listed |-> [err |-> FALSE, files |-> <<FileA>>]],
      [title |-> PlainText, message |-> PlainText,
       listed |-> [err |-> FALSE, files |-> <<FileB>>]],
      [title |-> PlainText, message |-> PlainText,
       listed |-> [err |-> FALSE, files |-> <<FileA, FileB>>]],
      [title |-> PlainText, message |-> PlainText,
       listed |-> [err |-> FALSE, files |-> <<>>]],
      [title |-> PlainText, message |-> PlainText,
       listed |-> [err |-> FALSE, files |-> <<FileDA>>]],
      [title |-> SkipText, message |-> PlainText,
       listed |-> [err |-> FALSE, files |-> <<FileA>>]],
      [title |-> PlainText, message |-> CiSkip,
       listed |-> [err |-> FALSE, files |-> <<FileA, FileB>>]],
      [title |-> NearMissText, message |-> PlainText,
       listed |-> [err |-> FALSE, files |-> <<FileA>>]],
      [title |-> PlainText, message |-> PlainText,
       listed |-> [err |-> TRUE, files |-> <<>>]] }

\* a PullRequest of number n and kind k
PullRequestOfKind(n, k) ==
    [ID |-> GlobalID(n), Number |-> n, Title |-> k.title,
     Tip |-> [ID |-> CommitID(n, FilterTime), CommittedDate |-> FilterTime,
              Message |-> k.message]]

\* the answers of the Github manager in the filtered checks: the open pull
\* requests and, for each of them, its modified files
FilterAnswers ==
    {[pulls |-> [i \in 1..Len(o) |-> PullRequestOfKind(o[i], kd[o[i]])],
      listErr |-> FALSE,
      files |-> [n \in PRs |-> IF \E i \in 1..Len(o) : o[i] = n
                               THEN kd[n].listed
                               ELSE [err |-> FALSE, files |-> <<>>]]] :
        o \in Orders, kd \in [PRs -> Kinds]}

\* the glob patterns of the filtered checks: "a", "*", and "a" with "b"
PathsOptions == { <<>>, <<FileA>>, << <<"*">> >>, <<FileA, FileB>> }

IgnorePathsOptions == { <<>>, <<FileB>>, << <<"*">> >> }

\* a pattern filepath.Match refuses: "["
BadPattern == <<"[">>

\* the source configurations of the filtered checks: every combination of
\* paths and ignore_paths with disable_ci_skip unset and "true",
\* disable_ci_skip "false" and "yes" (no boolean) without path filters, and
\* a bad pattern as paths, after a pattern of paths, and as ignore_paths
FilterSources ==
    {[DisableCISkip |-> d, Paths |-> ps, IgnorePaths |-> ig] :
        d \in {"", "true"}, ps \in PathsOptions, ig \in IgnorePathsOptions}
    \cup {[DisableCISkip |-> d, Paths |-> <<>>, IgnorePaths |-> <<>>] :
             d \in {"false", "yes"}}
    \cup {[DisableCISkip |-> "", Paths |-> <<BadPattern>>, IgnorePaths |-> <<>>],
          [DisableCISkip |-> "", Paths |-> <<FileA, BadPattern>>, IgnorePaths |-> <<>>],
          [DisableCISkip |-> "", Paths |-> <<>>, IgnorePaths |-> <<BadPattern>>],
          [DisableCISkip |-> "", Paths |-> <<FileA>>, IgnorePaths |-> <<FileA, BadPattern>>]}

\* the Versions a filtered check is handed: none, or the Version the first
\* check of pull request 1 alone returned
FilterVersions ==
    {NoVersion,
     NewVersion(PullRequest(1, FilterTime, PlainText),
                GenerateVersion(<<PullRequest(1, FilterTime, PlainText)>>))}

\* ------------------------------------------------------ environment of Get

\* the Versions Get is asked for: Versions a check returned
GetVersions ==
    {NewVersion(PullRequest(n, t, PlainText),
                GenerateVersion(<<PullRequest(n, t, PlainText)>>)) :
        n \in PRs, t \in Times}

\* the base branches of the pull requests
BaseRefNames == {"master", "develop"}

\* what RevParse can answer: the tip of the base moves
BaseSHAs == {"b1", "b2"}

\* what GetPullRequest answers for pull request n with base branch base
PullRequestObject(n, base) ==
    [Number |-> n, URL |-> "https://github.com/o/r/pull", BaseRefName |-> base,
     Repository |-> [URL |-> "https://github.com/o/r"],
     Tip |-> [OID |-> "oid", Message |-> "fix",
              Author |-> [User |-> [Login |-> "login"]]]]

\* ---------------------------------------------------------- Source.Validate

\* the nil error
NilError == [err |-> FALSE, msg |-> ""]

\* a Validate without its last check
ValidateV3Only(s) ==
    IF s.AccessToken = "" THEN [err |-> TRUE, msg |-> "access_token must be set"]
    ELSE IF s.Repository = "" THEN [err |-> TRUE, msg |-> "repository must be set"]
    ELSE IF s.V3Endpoint # "" /\ s.V4Endpoint = ""
    THEN [err |-> TRUE, msg |-> "v4_endpoint must be set together with v3_endpoint"]
    ELSE NilError

\* Source.Validate: the error it returns
Validate(s) ==
    IF s.AccessToken = "" THEN [err |-> TRUE, msg |-> "access_token must be set"]
    ELSE IF s.Repository = "" THEN [err |-> TRUE, msg |-> "repository must be set"]
    ELSE IF s.V3Endpoint # "" /\ s.V4Endpoint = ""
    THEN [err |-> TRUE, msg |-> "v4_endpoint must be set together with v3_endpoint"]
    ELSE IF s.V4Endpoint # "" /\ s.V3Endpoint = ""
    THEN [err |-> TRUE, msg |-> "v3_endpoint must be set together with v4_endpoint"]
    ELSE NilError

\* Source.Validate: its receiver *s after the call; no statement of Validate
\* assigns to it
Validated(s) == s

\* the Sources Validate is called on
ValidateSources ==
    {[Repository |-> r, AccessToken |-> a, V3Endpoint |-> v3, V4Endpoint |-> v4,
      Paths |-> ps, IgnorePaths |-> <<>>, DisableCISkip |-> d] :
        r \in {"", "itsdalmo/test-repository"},
        a \in {"", "token"},
        v3 \in {"", "https://api.github.com"},
        v4 \in {"", "https://api.github.com/graphql"},
        ps \in PathsOptions,
        d \in {"", "true"}}

\* --------------------------------------------- environment of AboveTheFold

\* the pullRequestVersion arguments: the version strings of the pull requests
FoldCurrents ==
    {GetVersionStringFromPullRequest(PullRequest(n, t, PlainText)) :
        n \in PRs, t \in Times}

\* the alreadySeen arguments: the ledgers of none, one and two entries, each
\* the version string of a pull request (two entries of one pull request
\* included), and the edited ledgers
FoldLedgers ==
    {Join(es, ",") : es \in UNION {[1..k -> FoldCurrents] : k \in 0..MaxPR}}
    \cup EditedLedgers

\* ------------------------------------------------- environment of the codec

\* the tip dates of the pull requests handed to the codec: every tick of the
\* seconds 0..MaxSec
CodecTimes == 0..(TimeOfUnix(MaxSec + 1) - 1)

\* the slices of pull requests handed to GenerateVersion: pull requests of
\* distinct numbers, in any order
CodecPulls ==
    {[i \in 1..Len(o) |-> PullRequest(o[i], tm[o[i]], PlainText)] :
        o \in Orders, tm \in [PRs -> CodecTimes]}

\* no ledger was written
NoCodec == [called |-> FALSE, pulls |-> <<>>]

\* no call of AboveTheFold was made
NoFold == [called |-> FALSE, pullRequestVersion |-> <<>>, alreadySeen |-> <<>>,
           panic |-> FALSE, above |-> FALSE]

\* no call of Source.Validate was made
NoValidation == [called |-> FALSE]

\* no call of Get was made
NoGet == [called |-> FALSE]

\* ------------------------------------------------------------ state machine

VARIABLES
    request,   \* the CheckRequest of the latest check: Source and Version
    manager,   \* what the Github manager answered in the latest check
    outcome,   \* "none" before the first check, then "ok", "error" or "panic"
    response,  \* the CheckResponse of the latest check
    before,    \* the check before the latest: its outcome, its filtered
               \* snapshot, whether it built new Versions, and the pull
               \* requests of the snapshots before it in the same chain
    chained,   \* the latest check was handed a Version of the check before it
    checks,    \* the number of checks made
    fetched,   \* the ListModifiedFiles calls of the latest check, in order
    fold,      \* a call of AboveTheFold: its arguments and what it returned
    validation,\* a call of Source.Validate: the Source and what it returned
    get,       \* a call of Get: its request, its collaborators and its effects
    codec      \* a ledger written by GenerateVersion and read back field by
               \* field by ExtractVersionFromVersionString

\* the variables of the check step
checkVars == <<request, manager, outcome, response, before, chained, checks, fetched>>

vars == <<checkVars, fold, validation, get, codec>>

\* the pull requests of a manager answer that pass the filters of the source
Passing(src, mgr) ==
    LET off == src.DisableCISkip # "" /\ ParseBool(src.DisableCISkip).val
    IN  {p \in {mgr.pulls[i] : i \in 1..Len(mgr.pulls)} :
            off \/ (~ContainsSkipCI(p.Title) /\ ~ContainsSkipCI(p.Tip.Message))}

Init ==
    /\ request \in {[Source |-> src, Version |-> v] : src \in Sources, v \in FirstVersions}
    /\ manager = [pulls |-> <<>>, listErr |-> FALSE, files |-> NoFiles]
    /\ outcome = "none"
    /\ response = <<>>
    /\ before = [outcome |-> "none", filtered |-> {}, built |-> FALSE, earlier |-> {}]
    /\ chained = FALSE
    /\ checks = 0
    /\ fetched = <<>>
    /\ fold = NoFold
    /\ validation = NoValidation
    /\ get = NoGet
    /\ codec = NoCodec

\* One check of the resource: ListOpenPullRequests answers mgr, and Check
\* computes the response from the request and mgr.
RunCheck(version, mgr, isChained) ==
    LET req == [Source |-> request.Source, Version |-> version]
        res == Check(req, mgr)
    IN  /\ checks < MaxChecks
        /\ request' = req
        /\ manager' = mgr
        /\ outcome' = res.outcome
        /\ response' = res.response
        /\ before' = [outcome |-> outcome,
                      filtered |-> Passing(request.Source, manager),
                      built |-> Len(response) > 0 /\ response # <<request.Version>>,
                      earlier |-> IF chained
                                  THEN before.filtered \cup before.earlier
                                  ELSE {}]
        /\ chained' = isChained
        /\ checks' = checks + 1
        /\ fetched' = ListModifiedFilesCalls(req, mgr)
        /\ UNCHANGED <<fold, validation, get, codec>>

\* the answers of ListOpenPullRequests
Answers ==
    {[pulls |-> [i \in 1..Len(o) |-> PullRequest(o[i], tm[i], tt[i])],
      listErr |-> FALSE, files |-> NoFiles] :
        o \in Orders, tm \in [1..MaxPR -> Times], tt \in [1..MaxPR -> Titles]}

\* The caller hands the check a Version that the latest check returned.
CheckChained ==
    /\ outcome = "ok"
    /\ \E i \in 1..Len(response), mgr \in Answers : RunCheck(response[i], mgr, TRUE)

\* The caller hands the check the Version it handed the latest check: the
\* first check, a check after a failed one, a check after an empty response.
CheckAgain ==
    /\ outcome # "ok" \/ Len(response) = 0
    /\ \E mgr \in Answers : RunCheck(request.Version, mgr, FALSE)

\* ListOpenPullRequests fails.
CheckListFails ==
    \E mgr \in {[pulls |-> <<>>, listErr |-> TRUE, files |-> NoFiles]} :
        RunCheck(request.Version, mgr, FALSE)

Next == CheckChained \/ CheckAgain \/ CheckListFails

Spec == Init /\ [][Next]_vars

\* The chains of a resource whose first check is handed no Version: every
\* ledger of such a chain was written by a check.
InitFresh == Init /\ request.Version = NoVersion

FreshSpec == InitFresh /\ [][Next]_vars

\* ------------------------------------------------------- the filtered check

\* Number of checks in a chain of filtered checks.
MaxFilterChecks == 1

InitFilter ==
    /\ request \in {[Source |-> src, Version |-> v] :
                       src \in FilterSources, v \in FilterVersions}
    /\ manager = [pulls |-> <<>>, listErr |-> FALSE, files |-> NoFiles]
    /\ outcome = "none"
    /\ response = <<>>
    /\ before = [outcome |-> "none", filtered |-> {}, built |-> FALSE, earlier |-> {}]
    /\ chained = FALSE
    /\ checks = 0
    /\ fetched = <<>>
    /\ fold = NoFold
    /\ validation = NoValidation
    /\ get = NoGet
    /\ codec = NoCodec

\* One check of a resource with filters: titles and messages with and without
\* skip markers, modified files that match and do not match the patterns.
CheckFiltered ==
    /\ checks < MaxFilterChecks
    /\ \E mgr \in FilterAnswers : RunCheck(request.Version, mgr, FALSE)

\* ListOpenPullRequests fails in a check of a resource with filters.
CheckFilteredListFails ==
    /\ checks < MaxFilterChecks
    /\ \E mgr \in {[pulls |-> <<>>, listErr |-> TRUE, files |-> NoFiles]} :
           RunCheck(request.Version, mgr, FALSE)

FilterNext == CheckFiltered \/ CheckFilteredListFails

FilterSpec == InitFilter /\ [][FilterNext]_vars

\* ------------------------------------------------------------------- the get

InitGet ==
    /\ request = [Source |-> [DisableCISkip |-> "", Paths |-> <<>>, IgnorePaths |-> <<>>],
                  Version |-> NoVersion]
    /\ manager = [pulls |-> <<>>, listErr |-> FALSE, files |-> NoFiles]
    /\ outcome = "none"
    /\ response = <<>>
    /\ before = [outcome |-> "none", filtered |-> {}, built |-> FALSE, earlier |-> {}]
    /\ chained = FALSE
    /\ checks = 0
    /\ fetched = <<>>
    /\ fold = NoFold
    /\ validation = NoValidation
    /\ get = NoGet
    /\ codec = NoCodec

\* One get of the resource: Get is called with a Version; GetPullRequest
\* answers pull request n, RevParse answers sha, and the call number failing
\* (if any) returns an error.
RunGet ==
    /\ ~get.called
    /\ \E v \in GetVersions, n \in PRs, base \in BaseRefNames, sha \in BaseSHAs :
         \E failing \in 0..Len(GetCalls([Version |-> v], PullRequestObject(n, base), sha)) :
           \E res \in {Get([Version |-> v], PullRequestObject(n, base), sha, failing)} :
             get' = [called |-> TRUE,
                     request |-> [Version |-> v],
                     pull |-> PullRequestObject(n, base),
                     baseSHA |-> sha,
                     failing |-> failing,
                     calls |-> res.calls,
                     written |-> res.written,
                     response |-> res.response,
                     err |-> res.err]
    /\ UNCHANGED <<checkVars, fold, validation, codec>>

GetNext == RunGet

GetSpec == InitGet /\ [][GetNext]_vars

\* -------------------------------------------------------------- the validate

InitValidate ==
    /\ request = [Source |-> [DisableCISkip |-> "", Paths |-> <<>>, IgnorePaths |-> <<>>],
                  Version |-> NoVersion]
    /\ manager = [pulls |-> <<>>, listErr |-> FALSE, files |-> NoFiles]
    /\ outcome = "none"
    /\ response = <<>>
    /\ before = [outcome |-> "none", filtered |-> {}, built |-> FALSE, earlier |-> {}]
    /\ chained = FALSE
    /\ checks = 0
    /\ fetched = <<>>
    /\ fold = NoFold
    /\ validation \in {[called |-> FALSE, source |-> s] : s \in ValidateSources}
    /\ get = NoGet
    /\ codec = NoCodec

\* Validate is called on the Source.
RunValidate ==
    /\ ~validation.called
    /\ validation' = [called |-> TRUE,
                      given |-> validation.source,
                      source |-> Validated(validation.source),
                      result |-> Validate(validation.source)]
    /\ UNCHANGED <<checkVars, fold, get, codec>>

ValidateNext == RunValidate

ValidateSpec == InitValidate /\ [][ValidateNext]_vars

\* ------------------------------------------------------ the fold classifier

InitFold ==
    /\ request = [Source |-> [DisableCISkip |-> "", Paths |-> <<>>, IgnorePaths |-> <<>>],
                  Version |-> NoVersion]
    /\ manager = [pulls |-> <<>>, listErr |-> FALSE, files |-> NoFiles]
    /\ outcome = "none"
    /\ response = <<>>
    /\ before = [outcome |-> "none", filtered |-> {}, built |-> FALSE, earlier |-> {}]
    /\ chained = FALSE
    /\ checks = 0
    /\ fetched = <<>>
    /\ fold \in {[NoFold EXCEPT !.pullRequestVersion = c, !.alreadySeen = l] :
                    c \in FoldCurrents, l \in FoldLedgers}
    /\ validation = NoValidation
    /\ get = NoGet
    /\ codec = NoCodec

\* AboveTheFold is called on the version string and the ledger.
RunAboveTheFold ==
    /\ ~fold.called
    /\ \E res \in {AboveTheFold(fold.pullRequestVersion, fold.alreadySeen)} :
           fold' = [fold EXCEPT !.called = TRUE, !.panic = res.panic,
                                !.above = res.above]
    /\ UNCHANGED <<checkVars, validation, get, codec>>

FoldNext == RunAboveTheFold

FoldSpec == InitFold /\ [][FoldNext]_vars

\* ----------------------------------------------------------- the ledger codec

InitCodec ==
    /\ request = [Source |-> [DisableCISkip |-> "", Paths |-> <<>>, IgnorePaths |-> <<>>],
                  Version |-> NoVersion]
    /\ manager = [pulls |-> <<>>, listErr |-> FALSE, files |-> NoFiles]
    /\ outcome = "none"
    /\ response = <<>>
    /\ before = [outcome |-> "none", filtered |-> {}, built |-> FALSE, earlier |-> {}]
    /\ chained = FALSE
    /\ checks = 0
    /\ fetched = <<>>
    /\ fold = NoFold
    /\ validation = NoValidation
    /\ get = NoGet
    /\ codec \in {[NoCodec EXCEPT !.pulls = ps] : ps \in CodecPulls}

\* GenerateVersion writes the ledger of the pulls; the ledger is split on ","
\* and ExtractVersionFromVersionString reads each field.
RunCodec ==
    /\ ~codec.called
    /\ \E ledger \in {GenerateVersion(codec.pulls)} :
           codec' = [called |-> TRUE,
                     pulls |-> codec.pulls,
                     ledger |-> ledger,
                     decoded |-> [i \in 1..Len(Split(ledger, ",")) |->
                                     ExtractVersionFromVersionString(
                                         Split(ledger, ",")[i])]]
    /\ UNCHANGED <<checkVars, fold, validation, get>>

\* A later check meets pull request i of the ledger with its tip at date t:
\* AboveTheFold is called on its version string and the ledger (line 302).
RunCodecFold ==
    /\ codec.called
    /\ "above" \notin DOMAIN codec
    /\ \E i \in 1..Len(codec.pulls), t \in CodecTimes :
         \E res \in {AboveTheFold(
                         GetVersionStringFromPullRequest(
                             [codec.pulls[i] EXCEPT !.Tip.CommittedDate = t]),
                         codec.ledger)} :
           codec' = [called |-> TRUE,
                     pulls |-> codec.pulls,
                     ledger |-> codec.ledger,
                     decoded |-> codec.decoded,
                     index |-> i,
                     tip |-> t,
                     panic |-> res.panic,
                     above |-> res.above]
    /\ UNCHANGED <<checkVars, fold, validation, get>>

CodecNext == RunCodec \/ RunCodecFold

CodecSpec == InitCodec /\ [][CodecNext]_vars

\* ---------------------------------------------------- vocabulary of the claims

\* the previous Version of the latest check
Prev == request.Version

\* the latest check was made and ListOpenPullRequests answered it
Ran == checks >= 1 /\ ~manager.listErr

\* the filtered snapshot of the latest check
Filtered == Passing(request.Source, manager)

\* the Versions the latest check returned
Returned == {response[i] : i \in 1..Len(response)}

\* the comma-separated fields of a ledger; the empty ledger has none
Fields(l) == IF l = <<>> THEN <<>> ELSE Split(l, ",")

\* a field "<id>:<integer>" of exactly two parts
WellFormedEntry(e) ==
    LET f == Split(e, ":") IN Len(f) = 2 /\ ParseInt(f[2]).ok

WellFormedLedger(l) == \A i \in 1..Len(Fields(l)) : WellFormedEntry(Fields(l)[i])

\* the fields of ledger l whose id is the number of pull request p
EntriesOf(l, p) ==
    {i \in 1..Len(Fields(l)) : Split(Fields(l)[i], ":")[1] = Itoa(p.Number)}

\* the unix seconds of the well-formed field i of ledger l
EntrySec(l, i) == ParseInt(Split(Fields(l)[i], ":")[2]).val

\* the tip of p was committed strictly after the time of one of its entries
Exceeds(p, l) ==
    \E i \in EntriesOf(l, p) :
        WellFormedEntry(Fields(l)[i]) /\ p.Tip.CommittedDate > TimeOfUnix(EntrySec(l, i))

\* p is above the fold of ledger l: it has no entry, or its tip is, in whole
\* seconds, later than one of its entries
AboveFold(p, l) ==
    \/ EntriesOf(l, p) = {}
    \/ \E i \in EntriesOf(l, p) :
           WellFormedEntry(Fields(l)[i]) /\ Unix(p.Tip.CommittedDate) > EntrySec(l, i)

\* ledger l has exactly one entry for each pull request of ps and none for
\* any other
OneEntryEach(l, ps) ==
    /\ \A p \in ps : Cardinality(EntriesOf(l, p)) = 1
    /\ \A i \in 1..Len(Fields(l)) : \E p \in ps : i \in EntriesOf(l, p)

\* the tip of p was committed at the very time of one of its entries
Equals(p, l) ==
    \E i \in EntriesOf(l, p) :
        WellFormedEntry(Fields(l)[i]) /\ p.Tip.CommittedDate = TimeOfUnix(EntrySec(l, i))

\* Version v is a Version of the tip of pull request p
VersionOf(v, p) ==
    v.PR = p.ID /\ v.Commit = p.Tip.ID /\ v.CommittedDate = p.Tip.CommittedDate

\* ledger l has exactly one entry for each pull request of ps, with its
\* current unix time, and no other entry
LedgerOf(l, ps) ==
    /\ WellFormedLedger(l)
    /\ \A p \in ps : \E i \in EntriesOf(l, p) :
           /\ EntriesOf(l, p) = {i}
           /\ EntrySec(l, i) = Unix(p.Tip.CommittedDate)
    /\ \A i \in 1..Len(Fields(l)) : \E p \in ps : i \in EntriesOf(l, p)

\* ------------------------------------------------------------------- claims

C3_NoAdvancementMissed ==
    (chained /\ Ran /\ outcome = "ok") =>
        \A p \in Filtered :
            (\E q \in before.filtered :
                 q.Number = p.Number /\ p.Tip.CommittedDate > q.Tip.CommittedDate)
            => \E v \in Returned : VersionOf(v, p)

\* C4, as claimed.  A check whose previous Version has a non-empty AlreadySeen
\* and in which no pull request of the snapshot has a tip committed strictly
\* after its ledger entry returns exactly [prev].
C4_SteadyState ==
    (/\ Ran
     /\ Prev.AlreadySeen # <<>>
     /\ \A p \in Filtered : ~Exceeds(p, Prev.AlreadySeen))
    => (outcome = "ok" /\ response = <<Prev>>)

\* C4, amended.  A check whose previous Version has a non-empty AlreadySeen
\* of well-formed entries, in which every pull request of the snapshot has an
\* entry and a tip committed strictly after none of its entries, returns
\* exactly [prev], prev unchanged in every field.
C4_SteadyStateTracked ==
    (/\ Ran
     /\ Prev.AlreadySeen # <<>>
     /\ WellFormedLedger(Prev.AlreadySeen)
     /\ \A p \in Filtered :
            EntriesOf(Prev.AlreadySeen, p) # {} /\ ~Exceeds(p, Prev.AlreadySeen))
    => (outcome = "ok" /\ response = <<Prev>>)

\* A steady-state check of two tracked pull requests re-emits prev.
C4_Witness ==
    /\ Ran
    /\ WellFormedLedger(Prev.AlreadySeen)
    /\ Cardinality(Filtered) >= 2
    /\ \A p \in Filtered :
           EntriesOf(Prev.AlreadySeen, p) # {} /\ ~Exceeds(p, Prev.AlreadySeen)
    /\ response = <<Prev>>

\* C5.  Bootstrap collapse: with an empty AlreadySeen and a filtered snapshot
\* of one or more pull requests with distinct tip dates, Check returns exactly
\* one Version, that of the pull request with the latest tip, and its ledger
\* lists every pull request of the snapshot.
C5_BootstrapCollapse ==
    (/\ Ran
     /\ Prev.AlreadySeen = <<>>
     /\ Filtered # {}
     /\ \A p, q \in Filtered : p # q => p.Tip.CommittedDate # q.Tip.CommittedDate)
    => /\ outcome = "ok"
       /\ Len(response) = 1
       /\ \E p \in Filtered :
              /\ \A q \in Filtered : q.Tip.CommittedDate <= p.Tip.CommittedDate
              /\ VersionOf(response[1], p)
       /\ LedgerOf(response[1].AlreadySeen, Filtered)

\* A bootstrap check of several pull requests, the latest tip delivered first.
C5_Witness ==
    /\ Ran /\ outcome = "ok"
    /\ Prev.AlreadySeen = <<>>
    /\ Len(manager.pulls) >= 2
    /\ \A i \in 2..Len(manager.pulls) :
           manager.pulls[1].Tip.CommittedDate > manager.pulls[i].Tip.CommittedDate
    /\ Len(response) = 1

C9_Ordering ==
    (Ran /\ outcome = "ok") =>
        \A i, j \in 1..Len(response) :
            i < j => response[i].CommittedDate <= response[j].CommittedDate

\* A check returns two Versions whose pull requests were delivered latest
\* first.
C9_Witness ==
    /\ Ran /\ outcome = "ok"
    /\ Len(response) = 2
    /\ Len(manager.pulls) = 2
    /\ manager.pulls[1].Tip.CommittedDate > manager.pulls[2].Tip.CommittedDate
    /\ VersionOf(response[1], manager.pulls[2])
    /\ VersionOf(response[2], manager.pulls[1])

\* C10.  Fixed point: a check handed a Version the check before returned,
\* with the snapshot of the check before, returns exactly that Version.
C10_FixedPoint ==
    (chained /\ Ran /\ Filtered = before.filtered) =>
        (outcome = "ok" /\ response = <<Prev>>)

\* A Version built by a check of two pull requests is handed back with the
\* same snapshot.
C10_Witness ==
    /\ chained /\ Ran
    /\ before.built
    /\ Filtered = before.filtered
    /\ Cardinality(Filtered) >= 2
    /\ response = <<Prev>>

\* ledger l has a field with a ":" whose second part is no integer
HasMalformedTimestamp(l) ==
    \E i \in 1..Len(Fields(l)) :
        Contains(Fields(l)[i], ":") /\ ~ParseInt(Split(Fields(l)[i], ":")[2]).ok

\* C11.  A check whose previous Version has, in its AlreadySeen, an entry
\* with a ":" whose timestamp is no integer fails, whatever the snapshot, the
\* empty one included, and returns no Version: not the new ones, not the
\* previous one.  (A panic counts as a failure here.)
C11_MalformedFails ==
    (Ran /\ HasMalformedTimestamp(Prev.AlreadySeen)) =>
        (outcome # "ok" /\ response = <<>>)

\* C12.  A check whose previous Version has a non-empty AlreadySeen without
\* any ":" does not fail and returns exactly one Version for each pull request
\* of the filtered snapshot, without the collapse to the latest.
C12_GarbageAllNew ==
    (Ran /\ Prev.AlreadySeen # <<>> /\ ~Contains(Prev.AlreadySeen, ":")) =>
        /\ outcome = "ok"
        /\ \A p \in Filtered :
               Cardinality({i \in 1..Len(response) : VersionOf(response[i], p)}) = 1
        /\ Filtered # {} => Len(response) = Cardinality(Filtered)

\* A check with a ledger without ":" returns a Version for each of two pull
\* requests.
C12_Witness ==
    /\ Ran /\ outcome = "ok"
    /\ Prev.AlreadySeen # <<>> /\ ~Contains(Prev.AlreadySeen, ":")
    /\ Cardinality(Filtered) >= 2
    /\ Len(response) = Cardinality(Filtered)

\* C13.  In a chain of checks, each handed a Version of the check before it,
\* a pull request that was in the filtered snapshot of an earlier check, is
\* absent from the snapshot of the check before the latest, and is in the
\* snapshot of the latest check with the tip date it had is returned as a
\* Version by the latest check.
C13_ReopenedIsNew ==
    (chained /\ Ran /\ outcome = "ok") =>
        \A p \in Filtered :
            (/\ \E q \in before.earlier :
                    /\ q.Number = p.Number
                    /\ q.Tip.CommittedDate = p.Tip.CommittedDate
             /\ \A q \in before.filtered : q.Number # p.Number)
            => \E v \in Returned : VersionOf(v, p)

\* the pull requests ListOpenPullRequests delivered to the latest check
Delivered == {manager.pulls[i] : i \in 1..Len(manager.pulls)}

\* the title or the tip message of p carries a skip marker
Marked(p) == p.Title = SkipText \/ p.Tip.Message = CiSkip

\* disable_ci_skip parses to true
SkipDisabled == request.Source.DisableCISkip \in {"1", "t", "T", "TRUE", "true", "True"}

\* the latest check built Versions: its response is not empty and is not the
\* re-emitted previous Version
Built == outcome = "ok" /\ response # <<>> /\ response # <<Prev>>

\* the answer of the manager with every title and tip message plain
Unmarked(mgr) ==
    [mgr EXCEPT !.pulls =
        [i \in 1..Len(mgr.pulls) |->
            [mgr.pulls[i] EXCEPT !.Title = PlainText, !.Tip.Message = PlainText]]]

\* C14.  Unless disable_ci_skip parses to true, a pull request whose title or
\* tip message carries a skip marker has no Version among the Versions a check
\* builds and no entry in their ledger; when disable_ci_skip parses to true
\* the check answers as it does for the same pull requests without markers.
C14_SkipMarked ==
    (Ran /\ outcome = "ok") =>
        IF SkipDisabled
        THEN response = Check(request, Unmarked(manager)).response
        ELSE Built =>
                 \A p \in Delivered : Marked(p) =>
                     \A v \in Returned :
                         ~VersionOf(v, p) /\ EntriesOf(v.AlreadySeen, p) = {}

\* A check without disable_ci_skip is delivered a pull request with a marker
\* in its title and one without: it builds a Version whose ledger has the
\* second only.
C14_Witness ==
    /\ Ran /\ Built /\ ~SkipDisabled
    /\ \E p, q \in Delivered :
           /\ p.Title = SkipText
           /\ ~Marked(q)
           /\ \E v \in Returned :
                  EntriesOf(v.AlreadySeen, q) # {} /\ EntriesOf(v.AlreadySeen, p) = {}

\* the modified files of p, as ListModifiedFiles answers
FilesOf(p) == manager.files[p.Number].files

\* file f matches glob pattern
Matches(pattern, f) == Match(pattern, f).match

\* p has a file that matches a pattern of paths, if paths is configured, and
\* a file that matches no pattern of ignore_paths, if ignore_paths is
WantedByConfig(p) ==
    /\ \/ Len(request.Source.Paths) = 0
       \/ \E i \in 1..Len(FilesOf(p)), j \in 1..Len(request.Source.Paths) :
              Matches(request.Source.Paths[j], FilesOf(p)[i])
    /\ \/ Len(request.Source.IgnorePaths) = 0
       \/ \E i \in 1..Len(FilesOf(p)) :
              \A j \in 1..Len(request.Source.IgnorePaths) :
                  ~Matches(request.Source.IgnorePaths[j], FilesOf(p)[i])

\* the pull requests the skip markers do not exclude
Unskipped == {p \in Delivered : SkipDisabled \/ ~Marked(p)}

\* paths or ignore_paths is configured
PathsConfigured ==
    Len(request.Source.Paths) > 0 \/ Len(request.Source.IgnorePaths) > 0

\* C15.  Path filtering.  A pull request that no skip marker excludes is
\* classified (has an entry in the ledger of the Versions the check builds;
\* makes the check build a Version when it is above the fold) if and only if
\* (paths is empty or one of its files matches a pattern of paths) and
\* (ignore_paths is empty or one of its files matches no pattern of
\* ignore_paths).  ListModifiedFiles is called at most once per pull request,
\* for pull requests no skip marker excludes only, for each of them when the
\* check succeeds, and never when neither paths nor ignore_paths is configured.
C15_PathFilter ==
    Ran =>
        /\ Built =>
               \A p \in Unskipped : \A v \in Returned :
                   (EntriesOf(v.AlreadySeen, p) # {}) <=> WantedByConfig(p)
        /\ (outcome = "ok" /\ ~Built) =>
               \A p \in Unskipped :
                   WantedByConfig(p) => ~AboveFold(p, Prev.AlreadySeen)
        /\ \A i, j \in 1..Len(fetched) : i # j => fetched[i] # fetched[j]
        /\ \A i \in 1..Len(fetched) : \E p \in Unskipped : p.Number = fetched[i]
        /\ ~PathsConfigured => fetched = <<>>
        /\ (outcome = "ok" /\ PathsConfigured) =>
               \A p \in Unskipped : \E i \in 1..Len(fetched) : fetched[i] = p.Number

\* A check with paths and ignore_paths is delivered a pull request that passes
\* both filters and one that does not; the ledger it builds has the first only.
C15_Witness ==
    /\ Ran /\ Built
    /\ Len(request.Source.Paths) > 0 /\ Len(request.Source.IgnorePaths) > 0
    /\ Len(fetched) = 2
    /\ \E p, q \in Unskipped :
           /\ WantedByConfig(p) /\ ~WantedByConfig(q)
           /\ \E v \in Returned :
                  EntriesOf(v.AlreadySeen, p) # {} /\ EntriesOf(v.AlreadySeen, q) = {}

\* the steps of a get, in the order claimed
GetOrder ==
    <<"GetPullRequest", "Init", "Pull", "Fetch", "RevParse", "Checkout", "Merge",
      "MkdirAll", "WriteFile", "WriteFile">>

\* the arguments claimed for call number i of a get
GetArgsAsClaimed(i) ==
    LET c == get.calls[i]
    IN  CASE c.op = "GetPullRequest" ->
                 c.args = <<get.request.Version.PR, get.request.Version.Commit>>
          [] c.op = "Init" -> c.args = <<>>
          [] c.op = "Pull" -> c.args = <<get.pull.Repository.URL>>
          [] c.op = "Fetch" -> c.args = <<get.pull.Repository.URL, get.pull.Number>>
          [] c.op = "RevParse" -> c.args = <<get.pull.BaseRefName>>
          [] c.op = "Checkout" -> c.args = <<get.baseSHA>>
          [] c.op = "Merge" -> c.args = <<get.pull.Tip.OID>>
          [] c.op = "MkdirAll" -> TRUE
          [] c.op = "WriteFile" ->
                 c.args[1] = IF i = Len(GetOrder) THEN "metadata.json" ELSE "version.json"

\* C16.  The calls of a Get are, in this order and each at most once,
\* GetPullRequest(version PR, version commit), Init, Pull(repository URL),
\* Fetch(repository URL, number), RevParse(base ref), Checkout(the SHA
\* RevParse returned), Merge(tip OID), and only then the writes of
\* version.json and metadata.json; when a call fails it is the last call, and
\* Get returns an error and a nil response; when none fails all are made.
C16_GetOrder ==
    get.called =>
        /\ Len(get.calls) <= Len(GetOrder)
        /\ \A i \in 1..Len(get.calls) :
               get.calls[i].op = GetOrder[i] /\ GetArgsAsClaimed(i)
        /\ get.failing # 0 =>
               Len(get.calls) = get.failing /\ get.err /\ get.response.nil
        /\ get.failing = 0 => Len(get.calls) = Len(GetOrder) /\ ~get.err
        /\ Len(get.written) > 0 =>
               \E i \in 1..Len(get.calls) :
                   get.calls[i].op = "Merge" /\ i # get.failing

\* A Get whose Merge fails: Checkout and Merge were called, nothing was
\* written, the response is nil.
C16_Witness ==
    /\ get.called /\ get.err /\ get.response.nil
    /\ get.calls[Len(get.calls)].op = "Merge"
    /\ get.calls[Len(get.calls) - 1].op = "Checkout"
    /\ get.written = <<>>

\* the value of key in a marshalled object
ValueOf(b, key) == b[(CHOOSE i \in 1..Len(b) : i % 2 = 1 /\ b[i] = key) + 1]

\* the Version a marshalled Version reads back as
UnmarshalVersion(b) ==
    [PR |-> ValueOf(b, "pr"), Commit |-> ValueOf(b, "commit"),
     CommittedDate |-> ParseInt(ValueOf(b, "committed")).val,
     AlreadySeen |-> ValueOf(b, "alreadyseen")]

\* the one call of a get with operation op
CallOf(op) == get.calls[CHOOSE i \in 1..Len(get.calls) : get.calls[i].op = op]

\* the value of the metadata field name of the response of a get
MetadataValue(name) ==
    get.response.Metadata[CHOOSE i \in 1..Len(get.response.Metadata) :
                              get.response.Metadata[i].name = name].value

\* C17.  A Get that succeeds returns the Version of its request, unchanged in
\* every field; version.json holds that Version; the metadata has the fields
\* pr, url, head_sha, base_sha, message, author in this order, base_sha the SHA
\* that Checkout was called with and head_sha the tip that Merge was called
\* with.
C17_GetFrame ==
    (get.called /\ ~get.err) =>
        /\ get.response.Version = get.request.Version
        /\ \E i \in 1..Len(get.written) :
               /\ get.written[i][1] = "version.json"
               /\ UnmarshalVersion(get.written[i][2]) = get.request.Version
        /\ [i \in 1..Len(get.response.Metadata) |-> get.response.Metadata[i].name]
               = <<"pr", "url", "head_sha", "base_sha", "message", "author">>
        /\ MetadataValue("base_sha") = CallOf("Checkout").args[1]
        /\ MetadataValue("head_sha") = CallOf("Merge").args[1]

\* A Get of a Version with a ledger and a committed date succeeds and writes
\* both files.
C17_Witness ==
    /\ get.called /\ ~get.err
    /\ get.request.Version.CommittedDate > 0
    /\ get.request.Version.AlreadySeen # <<>>
    /\ Len(get.written) = 2
    /\ get.response.Version = get.request.Version

\* C18.  Source.Validate returns an error exactly when access_token is empty,
\* or repository is empty, or exactly one of v3_endpoint and v4_endpoint is
\* set, and nil otherwise; the Source is after the call what it was before.
C18_Validate ==
    validation.called =>
        /\ validation.result.err <=>
               \/ validation.given.AccessToken = ""
               \/ validation.given.Repository = ""
               \/ (validation.given.V3Endpoint = "") # (validation.given.V4Endpoint = "")
        /\ ~validation.result.err => validation.result = NilError
        /\ validation.source = validation.given

\* Validate refuses a Source with token and repository whose v4_endpoint is
\* set and whose v3_endpoint is not.
C18_Witness ==
    /\ validation.called
    /\ validation.given.AccessToken # ""
    /\ validation.given.Repository # ""
    /\ validation.given.V3Endpoint = ""
    /\ validation.given.V4Endpoint # ""
    /\ validation.result.err

\* the record id of the entry or version string e
IdOf(e) == Split(e, ":")[1]

\* the unix seconds of the well-formed entry or version string e
SecOf(e) == ParseInt(Split(e, ":")[2]).val

\* no two entries of ledger l have the same record id
UniqueIds(l) ==
    \A i, j \in 1..Len(Fields(l)) :
        i # j => IdOf(Fields(l)[i]) # IdOf(Fields(l)[j])

\* C19.  Fold classification: for a ledger that has a ":" and whose entries
\* are well formed with unique record ids, AboveTheFold(current, ledger)
\* returns true if and only if no entry has the id of current or the
\* timestamp of current is strictly after that of the entry with its id.
C19_FoldClassifier ==
    (/\ fold.called
     /\ Contains(fold.alreadySeen, ":")
     /\ WellFormedLedger(fold.alreadySeen)
     /\ UniqueIds(fold.alreadySeen))
    => /\ ~fold.panic
       /\ fold.above <=>
              \/ \A i \in 1..Len(Fields(fold.alreadySeen)) :
                     IdOf(Fields(fold.alreadySeen)[i]) # IdOf(fold.pullRequestVersion)
              \/ \E i \in 1..Len(Fields(fold.alreadySeen)) :
                     /\ IdOf(Fields(fold.alreadySeen)[i]) = IdOf(fold.pullRequestVersion)
                     /\ SecOf(fold.pullRequestVersion) > SecOf(Fields(fold.alreadySeen)[i])

\* AboveTheFold returns true for a version string that is later than its
\* entry, the second of a ledger of two entries.
C19_Witness ==
    /\ fold.called /\ fold.above
    /\ WellFormedLedger(fold.alreadySeen) /\ UniqueIds(fold.alreadySeen)
    /\ Len(Fields(fold.alreadySeen)) = 2
    /\ IdOf(Fields(fold.alreadySeen)[2]) = IdOf(fold.pullRequestVersion)
    /\ SecOf(fold.pullRequestVersion) > SecOf(Fields(fold.alreadySeen)[2])

RECURSIVE LedgerByNumber(_)
\* the ledger of the pull requests ps: "<number>:<unix seconds of the tip>"
\* of each, ascending by number, separated by ","
LedgerByNumber(ps) ==
    IF ps = {} THEN <<>>
    ELSE LET p == CHOOSE x \in ps : \A y \in ps : x.Number <= y.Number
         IN  Itoa(p.Number) \o <<":">> \o Itoa(p.Tip.CommittedDate \div TicksPerSecond)
             \o (IF ps = {p} THEN <<>> ELSE <<",">> \o LedgerByNumber(ps \ {p}))

\* C20.  The ledger of every Version a check builds is the encoding of all
\* pull requests of the filtered snapshot, new and seen, ascending by number:
\* a function of the snapshot alone, whatever the previous ledger and the
\* partition into new and seen.
C20_LedgerOfSnapshot ==
    (Ran /\ Built) =>
        \A v \in Returned : v.AlreadySeen = LedgerByNumber(Filtered)

\* A check builds a Version of the pull request of the higher number while
\* the one of the lower number is already seen.
C20_Witness ==
    /\ Ran /\ Built
    /\ Prev.AlreadySeen # <<>>
    /\ \E p, q \in Filtered :
           /\ p.Number > q.Number
           /\ AboveFold(p, Prev.AlreadySeen)
           /\ EntriesOf(Prev.AlreadySeen, q) # {}
           /\ ~AboveFold(q, Prev.AlreadySeen)
    /\ Len(response) = 1

\* the pull requests of the latest check that pass every filter of the source
Surviving == {p \in Unskipped : WantedByConfig(p)}

\* C21.  A check that succeeds returns the empty list exactly when the ledger
\* of the previous Version is empty and no pull request passes the filters;
\* in every other case it returns one Version or more.
C21_EmptyOnlyWithoutHistory ==
    (Ran /\ outcome = "ok") =>
        (response = <<>> <=> (Prev.AlreadySeen = <<>> /\ Surviving = {}))

\* A chained check of an empty snapshot is handed a Version with a ledger and
\* returns it.
C21_Witness ==
    /\ chained /\ Ran /\ outcome = "ok"
    /\ Prev.AlreadySeen # <<>>
    /\ Surviving = {}
    /\ response = <<Prev>>

\* ledger l has a ":" and a field that does not split on ":" into exactly
\* two parts
HasMisshapenEntry(l) ==
    /\ Contains(l, ":")
    /\ \E i \in 1..Len(Fields(l)) : Len(Split(Fields(l)[i], ":")) # 2

\* C22.  A check whose previous Version has, in a ledger with a ":", an entry
\* that does not split on ":" into exactly two fields (one field, or three or
\* more as in "1:2:3") fails when it decodes the ledger, that is, when a pull
\* request passes the filters; it does not decode the entry from its first
\* two fields.
C22_MisshapenFails ==
    (Ran /\ HasMisshapenEntry(Prev.AlreadySeen) /\ Filtered # {}) =>
        outcome # "ok"

\* a pattern filepath.Match refuses
Bad(pattern) == Contains(pattern, "[")

\* the check calls ListModifiedFiles for p
Fetching(p) == p \in Unskipped /\ PathsConfigured

\* ListModifiedFiles fails for p
ListingFails(p) == Fetching(p) /\ manager.files[p.Number].err

\* a match of a file of p against a pattern of paths fails
PathsMatchFails(p) ==
    /\ Fetching(p) /\ ~manager.files[p.Number].err
    /\ Len(FilesOf(p)) > 0
    /\ \E j \in 1..Len(request.Source.Paths) : Bad(request.Source.Paths[j])

\* a match of a file of p against a pattern of ignore_paths fails: p passed
\* paths, and a file of p is left when the first bad pattern is reached
IgnoreMatchFails(p) ==
    /\ Fetching(p) /\ ~manager.files[p.Number].err
    /\ ~PathsMatchFails(p)
    /\ \/ Len(request.Source.Paths) = 0
       \/ \E i \in 1..Len(FilesOf(p)), j \in 1..Len(request.Source.Paths) :
              Matches(request.Source.Paths[j], FilesOf(p)[i])
    /\ \E j \in 1..Len(request.Source.IgnorePaths) :
           /\ Bad(request.Source.IgnorePaths[j])
           /\ \A k \in 1..(j - 1) : ~Bad(request.Source.IgnorePaths[k])
           /\ \E i \in 1..Len(FilesOf(p)) :
                  \A k \in 1..(j - 1) :
                      ~Matches(request.Source.IgnorePaths[k], FilesOf(p)[i])

\* the turns of the loop of the latest check in which a collaborator or a
\* match fails
FailingTurns ==
    {i \in 1..Len(manager.pulls) :
        \/ ListingFails(manager.pulls[i])
        \/ PathsMatchFails(manager.pulls[i])
        \/ IgnoreMatchFails(manager.pulls[i])}

\* C23.  No partial success.  When ListOpenPullRequests fails, Check returns
\* an error and no Version and calls ListModifiedFiles for no pull request.
\* When ListModifiedFiles or a glob match fails for a pull request, Check
\* returns an error and no Version, not even of the pull requests classified
\* before; ListModifiedFiles was called at most once per pull request, last
\* for the first pull request that fails, and for none after it.
C23_NoPartialSuccess ==
    checks >= 1 =>
        /\ manager.listErr =>
               outcome = "error" /\ response = <<>> /\ fetched = <<>>
        /\ (~manager.listErr /\ FailingTurns # {}) =>
               /\ outcome = "error" /\ response = <<>>
               /\ \A i, j \in 1..Len(fetched) : i # j => fetched[i] # fetched[j]
               /\ \E f \in FailingTurns :
                      /\ \A g \in FailingTurns : f <= g
                      /\ Len(fetched) > 0
                      /\ fetched[Len(fetched)] = manager.pulls[f].Number
                      /\ \A k \in 1..Len(fetched) : \E i \in 1..f :
                             fetched[k] = manager.pulls[i].Number

\* A check classifies its first pull request as new; ListModifiedFiles fails
\* for the second: the check returns an error and no Version.
C23_Witness ==
    /\ checks >= 1 /\ ~manager.listErr
    /\ Len(manager.pulls) = 2
    /\ FailingTurns = {2}
    /\ ListingFails(manager.pulls[2])
    /\ manager.pulls[1] \in Surviving
    /\ AboveFold(manager.pulls[1], Prev.AlreadySeen)
    /\ outcome = "error" /\ response = <<>>
    /\ Len(fetched) = 2

\* the pull request of the decoded pair d: its number and the date of its tip
PullOfPair(d) ==
    [Number |-> ParseInt(d.PR).val, Tip |-> [CommittedDate |-> d.committedDate]]

\* the ledger read back, field by field in order, as the pairs (number, unix
\* seconds of the tip) of the pulls, and written again as the same string
ReadsBack ==
    /\ Len(codec.decoded) = Len(codec.pulls)
    /\ \A i \in 1..Len(codec.pulls) :
           /\ ~codec.decoded[i].panic
           /\ codec.decoded[i].PR = Itoa(codec.pulls[i].Number)
           /\ codec.decoded[i].committedDate
                  = TimeOfUnix(codec.pulls[i].Tip.CommittedDate \div TicksPerSecond)
    /\ GenerateVersion([i \in 1..Len(codec.decoded) |-> PullOfPair(codec.decoded[i])])
           = codec.ledger

Folded == codec.called /\ "above" \in DOMAIN codec

\* the dates t and u lie in the same second
SameSecond(t, u) == t \div TicksPerSecond = u \div TicksPerSecond

\* C25.  One-second granularity: a pull request whose current tip date lies in
\* the same second as the tip date its ledger entry was written from is
\* classified not above the fold, and every tip date of that second gets the
\* same classification.
C25_SameSecondNotAbove ==
    Folded /\ SameSecond(codec.tip, codec.pulls[codec.index].Tip.CommittedDate) =>
        /\ ~codec.panic
        /\ ~codec.above
        /\ \A u \in CodecTimes :
               SameSecond(u, codec.tip) =>
                   AboveTheFold(
                       GetVersionStringFromPullRequest(
                           [codec.pulls[codec.index] EXCEPT !.Tip.CommittedDate = u]),
                       codec.ledger) = [panic |-> FALSE, above |-> FALSE]

\* A pull request of a ledger of two is met with a tip later than the one of
\* its ledger entry, in the same second, and is not above the fold.
C25_Witness ==
    /\ Folded
    /\ Len(codec.pulls) = 2
    /\ codec.tip > codec.pulls[codec.index].Tip.CommittedDate
    /\ SameSecond(codec.tip, codec.pulls[codec.index].Tip.CommittedDate)
    /\ ~codec.above

\* the snapshot delivered in the order f: pull request f[i] at place i
Delivery(f) == [manager EXCEPT !.pulls = [i \in 1..Len(f) |-> manager.pulls[f[i]]]]

\* the orders in which the snapshot of the check can be delivered
Deliveries ==
    {f \in [1..Len(manager.pulls) -> 1..Len(manager.pulls)] :
        \A i, j \in 1..Len(f) : i # j => f[i] # f[j]}

\* the pull requests of the snapshot have pairwise distinct numbers
DistinctNumbers ==
    \A i, j \in 1..Len(manager.pulls) :
        i # j => manager.pulls[i].Number # manager.pulls[j].Number

\* the tips of the snapshot were committed at pairwise distinct dates
DistinctTips ==
    \A i, j \in 1..Len(manager.pulls) :
        i # j => manager.pulls[i].Tip.CommittedDate # manager.pulls[j].Tip.CommittedDate

\* C26.  Snapshot-order independence: for a snapshot of pull requests with
\* unique numbers and pairwise distinct tip dates, the check returns the same
\* Versions in the same order, with the same ledgers, in whatever order
\* ListOpenPullRequests delivers the pull requests.
C26_OrderIndependent ==
    Ran /\ DistinctNumbers /\ DistinctTips =>
        \A f \in Deliveries :
            Check(request, Delivery(f)) = [outcome |-> outcome, response |-> response]

\* A check of two pull requests, delivered the later tip first, against a
\* ledger that knows neither of them at its date, returned two Versions.
C26_Witness ==
    /\ Ran
    /\ outcome = "ok"
    /\ DistinctTips
    /\ Len(manager.pulls) = 2
    /\ manager.pulls[1].Tip.CommittedDate > manager.pulls[2].Tip.CommittedDate
    /\ Contains(request.Version.AlreadySeen, ":")
    /\ Len(response) = 2

\* the names of the files the get left in the output directory
FilesLeft == {get.written[i][1] : i \in 1..Len(get.written)}

\* C27.  A failed get leaves no file: whenever Get returns an error, neither
\* version.json nor metadata.json has been written to the output directory by
\* that call.
C27_FailedGetLeavesNoFile ==
    get.called /\ get.err =>
        "version.json" \notin FilesLeft /\ "metadata.json" \notin FilesLeft

====
